---- MODULE Spec2Model ----
(***************************************************************************)
(* A model of IKOL's agent (src/main.py) and of its web front-end          *)
(* (src/web_terminal.py).                                                  *)
(*                                                                         *)
(*   Spec          one run of AutonomousAgent.run: AgentMemory.load/save,  *)
(*                 extract_json on every reply, the tools, the review      *)
(*   SpecConc      two runs sharing one memory file                        *)
(*   SpecExtract   extract_json applied to every short text                *)
(*   SpecStore     AgentMemory.save and load applied to sequences of       *)
(*                 entries, again and again                                *)
(*   SpecDerive    SkillRegistry._derive_name applied to URLs              *)
(*   SpecRegistry  SkillRegistry.install_from_url and list_installed on a  *)
(*                 directory tree, with curl and urlopen doing whatever    *)
(*                 they can do                                             *)
(*   SpecWeb       AppHandler handling POST requests one at a time: the    *)
(*                 identity check, the goal, the agent subprocess          *)
(*                                                                         *)
(* A Python str is modelled as a sequence of atomic chunks (TLA+ strings), *)
(* so that strip(), the regular-expression search and f-string             *)
(* concatenation are computed.  A model reply is such a sequence, and      *)
(* json.loads is a parser over it.  A URL or a skill name is a sequence of *)
(* characters.                                                             *)
(*                                                                         *)
(* Left out: the timestamp of a memory entry (utc_now), the text of the    *)
(* prompts (a reply is any of the replies listed, whatever the prompt),    *)
(* and what a tool does to the file system.  The two runs have different   *)
(* goals, which tells their entries apart as the timestamps would.  Each   *)
(* specification leaves the variables of the others at their idle values.  *)
(***************************************************************************)
EXTENDS Integers, Sequences, FiniteSets, TLC

\* ------------------------------------------------------------------ bounds

\* The largest max_steps a run is started with.
MaxSteps == 2

\* The largest max_steps of each of the two concurrent runs.
ConcSteps == 1

\* The longest text (in chunks) extract_json is called with on its own.
MaxLen == 4

\* The longest sequence of entries saved to the store on its own, and the
\* number of times it is saved and loaded again.
MaxEntries == 3
MaxRounds == 2

\* The longest short URL (in characters) a skill name is derived from; the
\* long ones are a short one followed by about SkillNameLimit letters.
MaxUrlLen == 4

\* --------------------------------------------------------------- JSON text

\* Chunks that stand for one "key": value member of a JSON object.
MemberChunks ==
    { "a=finish", "a=run_shell", "a=fly", "f=A", "f=S", "f=E", "i=ok", "i=bad",
      "d=true", "d=false", "r=R", "s=9", "p=P",
      "g=hi", "g=blank", "g=null", "m=3" }

\* The character a JSON text writes as the escape \ud83d: a lone surrogate,
\* which a Python str can hold and UTF-8 cannot encode.
Surrogate == "U+D83D"

\* JSON null as the value of a member: Python's None.
NoneValue == "<None>"

\* The key of a member chunk.
MemberKey(c) ==
    CASE c \in {"a=finish", "a=run_shell", "a=fly"} -> "action"
      [] c \in {"f=A", "f=S", "f=E"} -> "final_answer"
      [] c \in {"i=ok", "i=bad"} -> "input"
      [] c \in {"d=true", "d=false"} -> "done"
      [] c = "r=R" -> "reason"
      [] c = "s=9" -> "step"
      [] c = "p=P" -> "plan"
      [] c \in {"g=hi", "g=blank", "g=null"} -> "goal"
      [] c = "m=3" -> "max_steps"

\* The value of a member chunk: a str (sequence of chunks, none for the empty
\* str of "f=E"), a boolean for "done", a number for "step".  "input" is the shape of the keyword
\* arguments: <<"ok">> matches the tool's parameter names, <<"bad">> does not.
MemberVal(c) ==
    CASE c = "a=finish" -> <<"finish">>
      [] c = "a=run_shell" -> <<"run_shell">>
      [] c = "a=fly" -> <<"fly">>
      [] c = "f=A" -> <<"A">>
      [] c = "f=S" -> <<Surrogate>>
      [] c = "f=E" -> <<>>
      [] c = "i=ok" -> <<"ok">>
      [] c = "i=bad" -> <<"bad">>
      [] c = "d=true" -> TRUE
      [] c = "d=false" -> FALSE
      [] c = "r=R" -> <<"R">>
      [] c = "s=9" -> 9
      [] c = "p=P" -> <<"P">>
      [] c = "g=hi" -> <<"hi">>
      [] c = "g=blank" -> <<" ">>
      [] c = "g=null" -> <<NoneValue>>
      [] c = "m=3" -> <<"3">>

\* A Python value as the loop sees it: a dict, a list, a number or a str.
EmptyDict == [k \in {} |-> TRUE]
Dict(f) == [kind |-> "object", obj |-> f, str |-> <<>>]
ListValue == [kind |-> "array", obj |-> EmptyDict, str |-> <<>>]
NumberValue == [kind |-> "number", obj |-> EmptyDict, str |-> <<>>]
StrValue(s) == [kind |-> "string", obj |-> EmptyDict, str |-> s]

\* d[k] = v
SetItem(f, k, v) == [x \in (DOMAIN f) \cup {k} |-> IF x = k THEN v ELSE f[x]]

\* d.get(k, default)
Get(f, k, default) == IF k \in DOMAIN f THEN f[k] ELSE default

IsSpace(c) == c = " "

\* The first index >= i of s that is not whitespace (Len(s) + 1 if none).
RECURSIVE SkipSpace(_, _)
SkipSpace(s, i) ==
    IF i <= Len(s) /\ IsSpace(s[i]) THEN SkipSpace(s, i + 1) ELSE i

ParseFail == [ok |-> FALSE, val |-> NumberValue, next |-> 0]
ParseOk(v, n) == [ok |-> TRUE, val |-> v, next |-> n]

\* The JSON grammar over chunks: value ::= "1" | object | array;
\* object ::= "{" [member {"," member}] "}"; array ::= "[" [value {"," value}] "]",
\* with whitespace allowed between chunks.  A repeated key keeps the last value.
RECURSIVE ParseValue(_, _)
RECURSIVE ParseMembers(_, _, _)
RECURSIVE ParseElements(_, _)
ParseValue(s, i) ==
    IF i > Len(s) THEN ParseFail
    ELSE IF s[i] = "1" THEN ParseOk(NumberValue, i + 1)
    ELSE IF s[i] = "{" THEN
        LET j == SkipSpace(s, i + 1)
        IN  IF j <= Len(s) /\ s[j] = "}" THEN ParseOk(Dict(EmptyDict), j + 1)
            ELSE ParseMembers(s, j, EmptyDict)
    ELSE IF s[i] = "[" THEN
        LET j == SkipSpace(s, i + 1)
        IN  IF j <= Len(s) /\ s[j] = "]" THEN ParseOk(ListValue, j + 1)
            ELSE ParseElements(s, j)
    ELSE ParseFail

ParseMembers(s, i, acc) ==
    IF i > Len(s) \/ s[i] \notin MemberChunks THEN ParseFail
    ELSE
        LET acc2 == SetItem(acc, MemberKey(s[i]), MemberVal(s[i]))
            j == SkipSpace(s, i + 1)
        IN  IF j > Len(s) THEN ParseFail
            ELSE IF s[j] = "}" THEN ParseOk(Dict(acc2), j + 1)
            ELSE IF s[j] = "," THEN ParseMembers(s, SkipSpace(s, j + 1), acc2)
            ELSE ParseFail

ParseElements(s, i) ==
    LET e == ParseValue(s, i)
    IN  IF ~e.ok THEN ParseFail
        ELSE
            LET j == SkipSpace(s, e.next)
            IN  IF j > Len(s) THEN ParseFail
                ELSE IF s[j] = "]" THEN ParseOk(ListValue, j + 1)
                ELSE IF s[j] = "," THEN ParseElements(s, SkipSpace(s, j + 1))
                ELSE ParseFail

\* json.loads(s): ok is FALSE where Python raises json.JSONDecodeError.
json_loads(s) ==
    LET r == ParseValue(s, SkipSpace(s, 1))
    IN  IF r.ok /\ SkipSpace(s, r.next) > Len(s) THEN r ELSE ParseFail

\* str.strip()
RECURSIVE LastNonSpace(_, _)
LastNonSpace(s, i) ==
    IF i >= 1 /\ IsSpace(s[i]) THEN LastNonSpace(s, i - 1) ELSE i

strip(s) ==
    LET a == SkipSpace(s, 1)
        b == LastNonSpace(s, Len(s))
    IN  IF a > b THEN <<>> ELSE SubSeq(s, a, b)

\* re.search(r"\{.*\}", text, flags=re.DOTALL): the span from the first "{" to
\* the last "}" after it; found is FALSE when there is no match.
BraceSearch(s) ==
    LET opens == {i \in 1..Len(s) : s[i] = "{"}
        first == IF opens = {} THEN 0
                 ELSE CHOOSE i \in opens : \A j \in opens : i <= j
        closes == {i \in 1..Len(s) : s[i] = "}" /\ i > first}
        last == IF closes = {} THEN 0
                ELSE CHOOSE i \in closes : \A j \in closes : j <= i
    IN  IF opens = {} \/ closes = {} THEN [found |-> FALSE, group |-> <<>>]
        ELSE [found |-> TRUE, group |-> SubSeq(s, first, last)]

\* The dict extract_json degrades to.
FinishWith(text) ==
    Dict(SetItem(SetItem(EmptyDict, "action", <<"finish">>), "final_answer", text))

extract_json(raw) ==
    LET text == strip(raw)
        whole == json_loads(text)
        match == BraceSearch(text)
        inner == json_loads(match.group)
    IN  IF whole.ok THEN whole.val
        ELSE IF ~match.found THEN FinishWith(text)
        ELSE IF inner.ok THEN inner.val
        ELSE FinishWith(text)

\* ------------------------------------------------------------ memory store

\* The content of the memory file: absent, text json.loads rejects, bytes that
\* are not UTF-8, or a JSON document holding a dict or a list of entries.
Absent == [kind |-> "absent", items |-> <<>>]
Garbage == [kind |-> "garbage", items |-> <<>>]
Undecodable == [kind |-> "undecodable", items |-> <<>>]
Document(kind, items) == [kind |-> kind, items |-> items]

\* An entry a previous run left in the store, and one a previous run with the
\* goal of run 1 left.
OldEntry == [goal |-> "g0", observation |-> <<"old">>]
PriorEntry == [goal |-> "g1", observation |-> <<"old">>]

\* AgentMemory.load: the value returned ("list" or "dict" with its items), or
\* the exception that escapes.
load(f) ==
    IF f.kind = "absent" THEN [raises |-> "", value |-> Document("list", <<>>)]
    ELSE IF f.kind = "undecodable"
        THEN [raises |-> "UnicodeDecodeError", value |-> Document("list", <<>>)]
    ELSE IF f.kind = "garbage" THEN [raises |-> "", value |-> Document("list", <<>>)]
    ELSE [raises |-> "", value |-> Document(f.kind, f.items)]

\* The keys of a decision whose values are str.
StrKeys == {"action", "final_answer", "input", "reason", "plan"}

\* Whether the text json.dumps(entries, ensure_ascii=False) can be encoded as
\* UTF-8: no str in the entries holds a lone surrogate.
Encodable(entries) ==
    \A i \in DOMAIN entries.items :
        LET e == entries.items[i]
        IN  /\ "observation" \in DOMAIN e =>
                    \A k \in DOMAIN e.observation : e.observation[k] # Surrogate
            /\ "decision" \in DOMAIN e =>
                    \A key \in (DOMAIN e.decision) \cap StrKeys :
                        \A k \in DOMAIN e.decision[key] :
                            e.decision[key][k] # Surrogate

\* AgentMemory.save: write_text(json.dumps(entries, ensure_ascii=False,
\* indent=2), encoding="utf-8") opens the file for writing, which empties it,
\* and then encodes the text: the file holds the document afterwards, or is
\* left empty (text json.loads rejects) by the UnicodeEncodeError that escapes.
save(entries) ==
    IF Encodable(entries)
    THEN [raises |-> "", file |-> Document(entries.kind, entries.items)]
    ELSE [raises |-> "UnicodeEncodeError", file |-> Garbage]

\* ------------------------------------------------------------------ state

Runs == {1, 2}

VARIABLES
    file,       \* the memory store file, shared by the runs
    saveOrder,  \* the runs in the order of their writes of the file
    pc,         \* where each run is in AutonomousAgent.run
    goal,       \* state.goal
    max_steps,  \* state.max_steps
    step_no,    \* the loop variable
    history,    \* state.history
    memory,     \* the local list `memory`
    decision,   \* the local dict `decision`
    result,     \* the value run returned
    exc,        \* the exception that escaped run
    queries,    \* the llm.chat calls made, by prompt
    toolCalls,  \* the registered tools invoked
    loaded,     \* what memory_store.load() returned
    loadedAt,   \* how many writes of the file preceded the load
    written,    \* the values passed to memory_store.save(), in order
    text,       \* the argument of a call of extract_json on its own
    parsed,     \* what that call returned
    url,        \* the argument of a call of _derive_name on its own
    derived,    \* what that call returned
    given,      \* the entries a user of the memory store held at first
    held,       \* the entries it holds
    disk,       \* the file of that store
    storePc,    \* what that user did last
    rounds,     \* how many times it has saved and loaded
    root,       \* the directory tree under the skill registry's root
    reply,      \* the last call of the registry and what it returned or raised
    calls,      \* the downloads that call attempted, with their outcomes
    environ,    \* os.environ of the web front-end's process
    request,    \* the POST request being handled: path, headers, body
    webPc,      \* where its handler is
    auth,       \* the local `auth` of the handler
    verifyCalls, \* what the identity verifier did at each call for this request
    runArgs,    \* the goal and max_steps the handler read
    spawned,    \* whether the agent subprocess was started for this request
    agentProc,  \* the `completed` subprocess.run gave back
    response,   \* the HTTP response sent
    served      \* the requests handled so far

runVars == << file, saveOrder, pc, goal, max_steps, step_no, history, memory,
              decision, result, exc, queries, toolCalls, loaded, loadedAt, written >>

extractVars == << text, parsed >>

\* No call of extract_json on its own.
NotCalled == [kind |-> "none", obj |-> EmptyDict, str |-> <<>>]
ExtractIdle == text = <<>> /\ parsed = NotCalled

\* No call of _derive_name on its own.
NotDerived == [called |-> FALSE, name |-> <<>>]
DeriveIdle == url = <<>> /\ derived = NotDerived

\* No use of the memory store on its own.
StoreIdle ==
    /\ given = <<>>
    /\ held = [kind |-> "list", items |-> <<>>]
    /\ disk = [kind |-> "absent", items |-> <<>>]
    /\ storePc = "idle" /\ rounds = 0

\* No call of the skill registry; its root is there and empty (line 47).
\* changed tells whether the call wrote under the root.
NoReply ==
    [op |-> "none", raises |-> "", value |-> <<>>, list |-> <<>>,
     url |-> <<>>, name |-> <<>>, skill_name |-> <<>>, changed |-> FALSE]
EmptyTree == [q \in {} |-> TRUE]
RegistryIdle == root = EmptyTree /\ reply = NoReply /\ calls = <<>>

deriveVars == << url, derived >>

storeVars == << given, held, disk, storePc, rounds >>

registryVars == << root, reply, calls >>

\* AuthResult(ok, status_code, error, agent); None is "" for error, "None"
\* for agent.
AuthResult(ok, status_code, error, agent) ==
    [ok |-> ok, status_code |-> status_code, error |-> error, agent |-> agent]

NoRequest == [path |-> "", headers |-> EmptyDict, raw |-> <<>>]
NoAuth == AuthResult(FALSE, 0, "", "None")
NoArgs == [goal |-> <<>>, max_steps |-> <<>>]
NotCompleted == [returncode |-> 0, raises |-> "none"]
NoResponse == [status |-> 0, error |-> ""]

\* No request has come in.
WebIdle ==
    /\ environ = EmptyDict /\ request = NoRequest /\ webPc = "idle"
    /\ auth = NoAuth /\ verifyCalls = <<>> /\ runArgs = NoArgs
    /\ spawned = FALSE /\ agentProc = NotCompleted /\ response = NoResponse
    /\ served = 0

handlerVars == << request, webPc, auth, verifyCalls, runArgs, spawned, agentProc,
                 response, served >>

webVars == << environ, handlerVars >>

\* What a run of the agent leaves alone.
auxVars == << extractVars, deriveVars, storeVars, registryVars, webVars >>

vars == << runVars, auxVars >>

\* build_runtime's tools dict.
tools == { <<"read_file">>, <<"write_file">>, <<"run_shell">> }

Sentinel == <<"Reached max steps without finishing.">>

\* What the model sends back, by prompt.
PlannerReplies ==
    { <<"{", "p=P", "}">>, <<"x">>, <<"[", "1", "]">> }

ExecutorReplies ==
    { <<"{", "a=finish", ",", "f=A", "}">>,
      <<"{", "a=finish", ",", "f=S", "}">>,
      <<"{", "a=finish", ",", "f=E", "}">>,
      <<"{", "}">>,
      <<"{", "a=run_shell", ",", "i=ok", ",", "s=9", "}">>,
      <<"{", "a=run_shell", ",", "i=bad", "}">>,
      <<"x", "{", "a=fly", "}">>,
      <<"[", "1", "]">>,
      <<"x">>,
      <<" ", "x", " ">>,
      <<"x", Surrogate>> }

ReviewerReplies ==
    { <<"{", "d=true", ",", "f=A", "}">>,
      <<"{", "d=true", ",", "r=R", "}">>,
      <<"{", "d=true", ",", "f=E", ",", "r=R", "}">>,
      <<"{", "d=true", "}">>,
      <<"{", "d=false", ",", "r=R", "}">>,
      <<"x">>,
      <<"1">> }

\* What a tool called with well-named arguments does: returns its text, raises
\* TypeError from its body, or raises another exception (OSError, ValueError).
ToolOutcomes == {"ok", "TypeError", "fault"}

InitialFiles ==
    { Absent, Garbage, Undecodable, Document("dict", <<>>),
      Document("list", <<>>), Document("list", <<OldEntry>>),
      Document("list", <<PriorEntry>>) }

InitRun(active) ==
    /\ saveOrder = <<>>
    /\ pc = [r \in Runs |-> IF r \in active THEN "load" ELSE "idle"]
    /\ goal = [r \in Runs |-> IF r = 1 THEN "g1" ELSE "g2"]
    /\ step_no = [r \in Runs |-> 0]
    /\ history = [r \in Runs |-> <<>>]
    /\ memory = [r \in Runs |-> Document("list", <<>>)]
    /\ decision = [r \in Runs |-> EmptyDict]
    /\ result = [r \in Runs |-> <<>>]
    /\ exc = [r \in Runs |-> ""]
    /\ queries = [r \in Runs |-> [planner |-> 0, executor |-> 0, reviewer |-> 0]]
    /\ toolCalls = [r \in Runs |-> 0]
    /\ loaded = [r \in Runs |-> Document("list", <<>>)]
    /\ loadedAt = [r \in Runs |-> 0]
    /\ written = [r \in Runs |-> <<>>]

\* One run, started on any store file with any step budget up to MaxSteps.
Init ==
    /\ file \in InitialFiles
    /\ max_steps \in [Runs -> 0..MaxSteps]
    /\ max_steps[2] = 0
    /\ InitRun({1})
    /\ ExtractIdle /\ DeriveIdle /\ StoreIdle /\ RegistryIdle /\ WebIdle

\* memory_store.save(memory) overwriting the file whatever it holds, would keep
\* the first writer's content if it skipped a file changed since the load.
ReturnUnlessChanged(r, mem, value, state) ==
    /\ file' = IF Len(saveOrder) > loadedAt[r] THEN file ELSE save(mem).file
    /\ saveOrder' = Append(saveOrder, r)
    /\ written' = [written EXCEPT ![r] = Append(@, mem)]
    /\ IF save(mem).raises = ""
       THEN /\ result' = [result EXCEPT ![r] = value]
            /\ pc' = [pc EXCEPT ![r] = state]
            /\ UNCHANGED exc
       ELSE /\ pc' = [pc EXCEPT ![r] = "raised"]
            /\ exc' = [exc EXCEPT ![r] = save(mem).raises]
            /\ UNCHANGED result

\* memory_store.save(memory) followed by return value; state is the state the
\* run ends in, "finished" or "exhausted".  An exception of save leaves run.
Return(r, mem, value, state) ==
    /\ file' = save(mem).file
    /\ saveOrder' = Append(saveOrder, r)
    /\ written' = [written EXCEPT ![r] = Append(@, mem)]
    /\ IF save(mem).raises = ""
       THEN /\ result' = [result EXCEPT ![r] = value]
            /\ pc' = [pc EXCEPT ![r] = state]
            /\ UNCHANGED exc
       ELSE /\ pc' = [pc EXCEPT ![r] = "raised"]
            /\ exc' = [exc EXCEPT ![r] = save(mem).raises]
            /\ UNCHANGED result

\* An exception leaves run.
Raise(r, e) ==
    /\ pc' = [pc EXCEPT ![r] = "raised"]
    /\ exc' = [exc EXCEPT ![r] = e]

Asked(r, prompt) == [queries EXCEPT ![r][prompt] = @ + 1]

\* Line 265: memory = memory_store.load()
Load(r) ==
    /\ pc[r] = "load"
    /\ LET got == load(file)
       IN  IF got.raises # ""
           THEN /\ Raise(r, got.raises)
                /\ UNCHANGED << memory, loaded, loadedAt >>
           ELSE /\ memory' = [memory EXCEPT ![r] = got.value]
                /\ loaded' = [loaded EXCEPT ![r] = got.value]
                /\ loadedAt' = [loadedAt EXCEPT ![r] = Len(saveOrder)]
                /\ pc' = [pc EXCEPT ![r] = "plan"]
                /\ UNCHANGED exc
    /\ UNCHANGED << auxVars, file, saveOrder, goal, max_steps, step_no, history, decision,
                    result, queries, toolCalls, written >>

\* Lines 267-274: the planner query, extract_json, the plan event.
Planner(r, replies) ==
    /\ pc[r] = "plan"
    /\ \E t \in replies :
        history' = [history EXCEPT ![r] =
                        Append(@, [phase |-> "plan", data |-> extract_json(t)])]
    /\ queries' = Asked(r, "planner")
    /\ step_no' = [step_no EXCEPT ![r] = 1]
    /\ pc' = [pc EXCEPT ![r] = "exec"]
    /\ UNCHANGED << auxVars, file, saveOrder, goal, max_steps, memory, decision, result,
                    exc, toolCalls, loaded, loadedAt, written >>

\* llm.chat raises (urlopen fails, or the response is not the expected JSON):
\* nothing in run catches it.
ChatFault(r) ==
    /\ \/ /\ pc[r] = "plan"
          /\ queries' = Asked(r, "planner")
       \/ /\ pc[r] = "exec" /\ step_no[r] <= max_steps[r] /\ memory[r].kind = "list"
          /\ queries' = Asked(r, "executor")
       \/ /\ pc[r] = "review"
          /\ queries' = Asked(r, "reviewer")
    /\ Raise(r, "URLError")
    /\ UNCHANGED << auxVars, file, saveOrder, goal, max_steps, step_no, history, memory,
                    decision, result, toolCalls, loaded, loadedAt, written >>

\* Line 282: _executor_prompt slices memory[-8:], which a dict does not support.
PromptFault(r) ==
    /\ pc[r] = "exec" /\ step_no[r] <= max_steps[r] /\ memory[r].kind # "list"
    /\ Raise(r, "TypeError: slice")
    /\ UNCHANGED << auxVars, file, saveOrder, goal, max_steps, step_no, history, memory,
                    decision, result, queries, toolCalls, loaded, loadedAt, written >>

Event(phase, data) == [phase |-> phase, data |-> data]

\* memory.append(entry), would reorder the list if it inserted at the front.
PrependEntry(mem, entry) == Document("list", <<entry>> \o mem.items)

\* memory.append(entry)
AppendEntry(mem, entry) == Document("list", Append(mem.items, entry))

\* Line 298 without the action's name.
UnknownObservationNoName(action) == StrValue(<<"Unknown action">>)

\* Line 298: f"Unknown action: {action}"
UnknownObservation(action) == StrValue(<<"Unknown action: ">> \o action)

\* Line 287 keeping a step the model's output already carries.
StampUnlessPresent(d, k) == IF "step" \in DOMAIN d THEN d ELSE SetItem(d, "step", k)

\* Line 287: decision["step"] = step_no
Stamp(d, k) == SetItem(d, "step", k)

\* Lines 277-299: the executor query, the decision stamped and recorded, then
\* finish, an unknown action, or on to the tool.
Executor(r, replies) ==
    /\ pc[r] = "exec" /\ step_no[r] <= max_steps[r] /\ memory[r].kind = "list"
    /\ queries' = Asked(r, "executor")
    /\ \E t \in replies :
        LET value == extract_json(t)
            stamped == Stamp(value.obj, step_no[r])
            hist == Append(history[r], Event("execute", Dict(stamped)))
            mem == AppendEntry(memory[r], [goal |-> goal[r], decision |-> stamped])
            action == Get(stamped, "action", <<"finish">>)
        IN  IF value.kind # "object"
            THEN /\ Raise(r, "TypeError: item assignment")
                 /\ UNCHANGED << file, saveOrder, step_no, history, memory,
                                 decision, result, written >>
            ELSE /\ decision' = [decision EXCEPT ![r] = stamped]
                 /\ memory' = [memory EXCEPT ![r] = mem]
                 /\ IF action = <<"finish">>
                    THEN /\ history' = [history EXCEPT ![r] = hist]
                         /\ Return(r, mem, Get(stamped, "final_answer", <<"Done.">>),
                                "finished")
                         /\ UNCHANGED step_no
                    ELSE IF action \notin tools
                    THEN /\ history' = [history EXCEPT ![r] =
                                Append(hist, Event("observation",
                                               UnknownObservation(action)))]
                         /\ step_no' = [step_no EXCEPT ![r] = @ + 1]
                         /\ UNCHANGED << file, saveOrder, pc, result, exc, written >>
                    ELSE /\ history' = [history EXCEPT ![r] = hist]
                         /\ pc' = [pc EXCEPT ![r] = "tool"]
                         /\ UNCHANGED << file, saveOrder, step_no, result, exc, written >>
    /\ UNCHANGED << auxVars, goal, max_steps, toolCalls, loaded, loadedAt >>

\* Whether decision["input"] names the tool's parameters; a missing or empty
\* input becomes {} and misses the required ones.
KwargsMatch(d) == Get(d, "input", <<>>) = <<"ok">>

\* Lines 302-305 with an except clause that does not match TypeError.
ToolOutcomesUncaught(d, outcomes) ==
    IF KwargsMatch(d) THEN outcomes ELSE {"fault"}

\* Lines 302-305: what tool(**kwargs) can do.  Arguments that do not match
\* the parameter names raise TypeError before the tool's body runs.
ToolOutcomesFor(d, outcomes) ==
    IF KwargsMatch(d) THEN outcomes ELSE {"TypeError"}

\* Line 308 with an entry that does not carry the goal.
ObservationEntryNoGoal(g, observation) == [goal |-> "", observation |-> observation]

\* Line 308: {"goal": state.goal, "timestamp": utc_now(), "observation": ...}
ObservationEntry(g, observation) == [goal |-> g, observation |-> observation]

\* Lines 301-308: the tool call and its observation.
Tool(r, outcomes) ==
    /\ pc[r] = "tool"
    /\ toolCalls' = [toolCalls EXCEPT ![r] = @ + 1]
    /\ \E o \in ToolOutcomesFor(decision[r], outcomes) :
        LET observation == IF o = "ok" THEN <<"exit=0">>
                           ELSE <<"Invalid tool input: ", "TypeError">>
        IN  IF o = "fault"
            THEN /\ Raise(r, "OSError")
                 /\ UNCHANGED << history, memory >>
            ELSE /\ history' = [history EXCEPT ![r] =
                        Append(@, Event("observation", StrValue(observation)))]
                 /\ memory' = [memory EXCEPT ![r] = AppendEntry(@,
                        ObservationEntry(goal[r], observation))]
                 /\ pc' = [pc EXCEPT ![r] = "review"]
                 /\ UNCHANGED exc
    /\ UNCHANGED << auxVars, file, saveOrder, goal, max_steps, step_no, decision, result,
                    queries, loaded, loadedAt, written >>

\* x or y taking every x for truthy.
OrFirst(x, y) == x

\* x or y, for str values and the None of a missing key (<<>> here, as the
\* empty str is: both are falsy).
Or(x, y) == IF x # <<>> THEN x ELSE y

\* Line 319 taking every review for a done one.
AlwaysDone(review) == TRUE

\* Line 319: review.get("done")
IsDone(review) == Get(review, "done", FALSE)

\* Lines 310-321: the reviewer query, the review event, and the verdict.
Reviewer(r, replies) ==
    /\ pc[r] = "review"
    /\ queries' = Asked(r, "reviewer")
    /\ \E t \in replies :
        LET review == extract_json(t)
        IN  /\ history' = [history EXCEPT ![r] = Append(@, Event("review", review))]
            /\ IF review.kind # "object"
               THEN /\ Raise(r, "AttributeError: get")
                    /\ UNCHANGED << file, saveOrder, step_no, result, written >>
               ELSE IF IsDone(review.obj)
               THEN /\ Return(r, memory[r],
                            Or(Get(review.obj, "final_answer", <<>>),
                               Or(Get(review.obj, "reason", <<>>), <<"Done.">>)),
                            "finished")
                    /\ UNCHANGED step_no
               ELSE /\ step_no' = [step_no EXCEPT ![r] = @ + 1]
                    /\ pc' = [pc EXCEPT ![r] = "exec"]
                    /\ UNCHANGED << file, saveOrder, result, exc, written >>
    /\ UNCHANGED << auxVars, goal, max_steps, memory, decision, toolCalls, loaded, loadedAt >>

\* Lines 323-324: the loop is exhausted.
Exhausted(r) ==
    /\ pc[r] = "exec" /\ step_no[r] > max_steps[r]
    /\ Return(r, memory[r], Sentinel, "exhausted")
    /\ UNCHANGED << auxVars, goal, max_steps, step_no, history, memory, decision,
                    queries, toolCalls, loaded, loadedAt >>

Next ==
    \E r \in Runs :
        \/ Load(r)
        \/ Planner(r, PlannerReplies)
        \/ ChatFault(r)
        \/ PromptFault(r)
        \/ Executor(r, ExecutorReplies)
        \/ Tool(r, ToolOutcomes)
        \/ Reviewer(r, ReviewerReplies)
        \/ Exhausted(r)

Spec == Init /\ [][Next]_vars

TypeOK ==
    /\ \A r \in Runs : pc[r] \in {"idle", "load", "plan", "exec", "tool", "review",
                                  "finished", "exhausted", "raised"}

\* ---------------------------------------------------- two concurrent runs

ConcExecutorReplies ==
    { <<"{", "a=finish", ",", "f=A", "}">>,
      <<"{", "a=run_shell", ",", "i=ok", ",", "s=9", "}">>,
      <<"x", "{", "a=fly", "}">> }

ConcReviewerReplies ==
    { <<"{", "d=true", ",", "f=A", "}">>, <<"{", "d=false", ",", "r=R", "}">> }

\* Two runs (two processes of the CLI) started on the same store file.
InitConc ==
    /\ file \in {Absent, Document("list", <<OldEntry>>)}
    /\ max_steps \in [Runs -> 0..ConcSteps]
    /\ InitRun(Runs)
    /\ ExtractIdle /\ DeriveIdle /\ StoreIdle /\ RegistryIdle /\ WebIdle

NextConc ==
    \E r \in Runs :
        \/ Load(r)
        \/ Planner(r, {<<"{", "p=P", "}">>})
        \/ Executor(r, ConcExecutorReplies)
        \/ Tool(r, {"ok"})
        \/ Reviewer(r, ConcReviewerReplies)
        \/ Exhausted(r)

SpecConc == InitConc /\ [][NextConc]_vars

\* ------------------------------------------------- extract_json on its own

\* No run of the agent: the store file is not there and no process started.
NoRun ==
    /\ file = Absent
    /\ max_steps = [r \in Runs |-> 0]
    /\ InitRun({})

\* The chunks of the texts: braces, brackets, whitespace, prose, a number and
\* one member of an object.
TextChunks == {"{", "}", "[", "]", " ", "x", "1", "a=fly"}

Texts == UNION { [1..n -> TextChunks] : n \in 0..MaxLen }

\* extract_json is about to be called with any text of up to MaxLen chunks.
InitExtract ==
    /\ NoRun /\ DeriveIdle /\ StoreIdle /\ RegistryIdle /\ WebIdle
    /\ text \in Texts
    /\ parsed = NotCalled

\* The call extract_json(text).
Extract ==
    /\ parsed = NotCalled
    /\ parsed' = extract_json(text)
    /\ UNCHANGED << runVars, text, deriveVars, storeVars, registryVars, webVars >>

SpecExtract == InitExtract /\ [][Extract]_vars

\* ----------------------------------------------------- skill name derivation

\* A URL is a sequence of characters.  Line 110: the characters the class
\* [a-zA-Z0-9._-] holds, of those the URLs here are made of.
Allowed(c) == c \in {"a", "b", "c", "h", ".", "_", "-"}

\* Line 111: the slice bound of cleaned[-64:].
SkillNameLimit == 64

RECURSIVE SkipDisallowed(_)
\* s without its leading characters outside the class.
SkipDisallowed(s) ==
    IF s = <<>> \/ Allowed(Head(s)) THEN s ELSE SkipDisallowed(Tail(s))

RECURSIVE Sub(_)
\* re.sub(r"[^a-zA-Z0-9._-]+", "-", s): every run of characters outside the
\* class becomes one "-".
Sub(s) ==
    IF s = <<>> THEN <<>>
    ELSE IF Allowed(Head(s)) THEN <<Head(s)>> \o Sub(Tail(s))
    ELSE <<"-">> \o Sub(SkipDisallowed(Tail(s)))

\* Line 110 without .strip("-").
NoStripDash(s) == s

RECURSIVE LStripDash(_)
LStripDash(s) == IF s # <<>> /\ Head(s) = "-" THEN LStripDash(Tail(s)) ELSE s

RECURSIVE RStripDash(_)
RStripDash(s) ==
    IF s # <<>> /\ s[Len(s)] = "-" THEN RStripDash(SubSeq(s, 1, Len(s) - 1)) ELSE s

\* s.strip("-")
StripDash(s) == RStripDash(LStripDash(s))

\* s[-n:] for n > 0
LastN(s, n) == IF Len(s) <= n THEN s ELSE SubSeq(s, Len(s) - n + 1, Len(s))

ExternalSkill == <<"external-skill">>

\* SkillRegistry._derive_name
_derive_name(u) ==
    LET cleaned == StripDash(Sub(u))
    IN  IF LastN(cleaned, SkillNameLimit) # <<>>
        THEN LastN(cleaned, SkillNameLimit) ELSE ExternalSkill

UrlChars == {"a", ".", "_", "-", "/", ":"}

ShortUrls == UNION { [1..n -> UrlChars] : n \in 0..MaxUrlLen }

\* URLs about as long as the limit: a short start, then letters.
LongUrls ==
    { p \o [i \in 1..n |-> "a"] :
        p \in { u \in ShortUrls : Len(u) <= 2 },
        n \in (SkillNameLimit - 1)..(SkillNameLimit + 1) }

InitDerive ==
    /\ NoRun /\ ExtractIdle /\ StoreIdle /\ RegistryIdle /\ WebIdle
    /\ url \in ShortUrls \cup LongUrls
    /\ derived = NotDerived

\* The call _derive_name(url).
DeriveName ==
    /\ ~derived.called
    /\ derived' = [called |-> TRUE, name |-> _derive_name(url)]
    /\ UNCHANGED << runVars, extractVars, url, storeVars, registryVars, webVars >>

SpecDerive == InitDerive /\ [][DeriveName]_vars

\* ----------------------------------------------- the memory store on its own

\* Entries as a run appends them (lines 289 and 308, without the timestamp):
\* an old one, a decision, an observation, and a decision whose final_answer
\* holds a lone surrogate.
StampedDecision(t) == SetItem(extract_json(t).obj, "step", 1)

PoolEntries ==
    { OldEntry,
      [goal |-> "g1", decision |-> StampedDecision(<<"{", "a=finish", ",", "f=A", "}">>)],
      [goal |-> "g1", observation |-> <<"exit=0">>],
      [goal |-> "g1", decision |-> StampedDecision(<<"{", "a=finish", ",", "f=S", "}">>)] }

EntrySeqs == UNION { [1..n -> PoolEntries] : n \in 0..MaxEntries }

\* A user of AgentMemory holds any sequence of up to MaxEntries entries; the
\* file is not there yet.
InitStore ==
    /\ NoRun /\ ExtractIdle /\ DeriveIdle /\ RegistryIdle /\ WebIdle
    /\ given \in EntrySeqs
    /\ held = Document("list", given)
    /\ disk = Absent
    /\ storePc = "held" /\ rounds = 0

\* memory_store.save(held)
SaveStore ==
    /\ storePc \in {"held", "loaded"} /\ rounds < MaxRounds
    /\ disk' = save(held).file
    /\ storePc' = IF save(held).raises = "" THEN "saved" ELSE "save raised"
    /\ UNCHANGED << runVars, extractVars, deriveVars, registryVars, webVars, given, held,
                    rounds >>

\* held = memory_store.load(); the files save leaves are text, so that load
\* raises nothing.
LoadStore ==
    /\ storePc \in {"saved", "save raised"}
    /\ held' = load(disk).value
    /\ storePc' = "loaded"
    /\ rounds' = rounds + 1
    /\ UNCHANGED << runVars, extractVars, deriveVars, registryVars, webVars, given, disk >>

NextStore == SaveStore \/ LoadStore

SpecStore == InitStore /\ [][NextStore]_vars

\* ------------------------------------------------------------ skill registry

\* The directory tree under the root: a function from paths (sequences of
\* names, a name a sequence of characters) to what is there.
Dir == [type |-> "dir", body |-> <<>>]
File(body) == [type |-> "file", body |-> body]
Put(fs, p, node) == [q \in (DOMAIN fs) \cup {p} |-> IF q = p THEN node ELSE fs[q]]

\* The marker document's name.
Marker == <<"SKILL.md">>

RECURSIVE Split(_)
\* The parts of self.root / name: the names between the "/" of name.
Split(name) ==
    LET cut == { i \in DOMAIN name : name[i] = "/" }
        first == CHOOSE i \in cut : \A j \in cut : i <= j
    IN  IF name = <<>> THEN <<>>
        ELSE IF cut = {} THEN <<name>>
        ELSE IF first = 1 THEN Split(Tail(name))
        ELSE <<SubSeq(name, 1, first - 1)>>
                \o Split(SubSeq(name, first + 1, Len(name)))

RECURSIVE MkdirFrom(_, _, _)
\* path.mkdir(parents=True, exist_ok=True) from the k-th part on: a part that
\* is there as a file makes it raise.
MkdirFrom(fs, path, k) ==
    IF k > Len(path) THEN [raises |-> "", fs |-> fs]
    ELSE IF SubSeq(path, 1, k) \notin DOMAIN fs
        THEN MkdirFrom(Put(fs, SubSeq(path, 1, k), Dir), path, k + 1)
    ELSE IF fs[SubSeq(path, 1, k)].type = "dir" THEN MkdirFrom(fs, path, k + 1)
    ELSE [raises |-> IF k = Len(path) THEN "FileExistsError"
                     ELSE "NotADirectoryError",
          fs |-> fs]

mkdir(fs, path) == MkdirFrom(fs, path, 1)

\* path.write_text(body, encoding="utf-8")
write_text(fs, path, body) == Put(fs, path, File(body))

\* The code point of a character (of the first one of "external-skill").
Code(c) ==
    CASE c = "-" -> 45 [] c = "." -> 46 [] c = "/" -> 47 [] c = ":" -> 58
      [] c = "_" -> 95 [] c = "a" -> 97 [] c = "b" -> 98 [] c = "c" -> 99
      [] c = "external-skill" -> 101 [] c = "h" -> 104

\* s < t for two str.
StrLess(s, t) ==
    \E k \in 1..(Len(t)) :
        /\ \A i \in 1..(k - 1) : i <= Len(s) /\ s[i] = t[i]
        /\ \/ k = Len(s) + 1
           \/ k <= Len(s) /\ Code(s[k]) < Code(t[k])

\* sorted(S) for a set of str.
sorted(S) ==
    CHOOSE q \in [1..Cardinality(S) -> S] :
        \A i, j \in 1..Cardinality(S) : i < j => StrLess(q[i], q[j])

\* Lines 49-54: SkillRegistry.list_installed
list_installed(fs) ==
    sorted({ p[1] : p \in { q \in DOMAIN fs :
                /\ Len(q) = 1
                /\ fs[q].type = "dir"
                /\ (q \o <<Marker>>) \in DOMAIN fs } })

\* What one run of the curl command does: it writes a document, nothing or
\* blanks and exits 0; it exits non-zero; the command is not installed; its
\* output is not text in the locale's encoding.
CurlOutcomes == {"body", "empty", "blank", "failed", "unavailable", "undecodable"}

\* subprocess.run(["curl", "-sS", "-L", url], check=False, text=True,
\* capture_output=True)
CurlRun(o) ==
    [raises |-> CASE o = "unavailable" -> "FileNotFoundError"
                  [] o = "undecodable" -> "UnicodeDecodeError"
                  [] OTHER -> "",
     returncode |-> IF o = "failed" THEN "7" ELSE "0",
     stdout |-> CASE o = "body" -> <<"body">> [] o = "blank" -> <<" ">>
                  [] OTHER -> <<>>,
     stderr |-> IF o = "failed" THEN <<"curl: (7) Failed to connect">> ELSE <<>>]

\* Lines 56-63: SkillRegistry.verify_url_with_curl
verify_url_with_curl(o) ==
    LET completed == CurlRun(o)
        err == strip(Or(completed.stderr, completed.stdout))
    IN  IF completed.raises # ""
        THEN [raises |-> completed.raises, ok |-> FALSE, message |-> <<>>]
        ELSE IF completed.returncode = "0"
        THEN [raises |-> "", ok |-> TRUE,
              message |-> <<"curl_ok bytes=", ToString(Len(completed.stdout)),
                            " preview=", "'">> \o completed.stdout \o <<"'">>]
        ELSE [raises |-> "", ok |-> FALSE,
              message |-> <<"curl_failed code=", completed.returncode,
                            " details=">> \o err]

\* What request.urlopen(url, timeout=30) and resp.read().decode("utf-8") do:
\* a document is read; URLError; another exception (ValueError for a URL of
\* unknown type, UnicodeDecodeError, TimeoutError while reading).
GetOutcomes == {"body", "URLError", "ValueError"}

Call(stage, outcome) == [stage |-> stage, outcome |-> outcome]

\* What _download_skill hands back: (body, source), body None for none = TRUE,
\* or the exception that escapes; with the downloads it attempted.
DownloadResult(raises, none, body, source, attempts) ==
    [raises |-> raises, none |-> none, body |-> body, source |-> source,
     calls |-> attempts]

\* Lines 76-98 falling back to urlopen after a second fetch that fails.
_download_skill_retrying(p, s, g) ==
    LET pre == verify_url_with_curl(p)
        completed == CurlRun(s)
        first == <<Call("preflight", p)>>
        fetched == pre.raises = "" /\ pre.ok /\ completed.raises = ""
                    /\ completed.returncode = "0" /\ strip(completed.stdout) # <<>>
        attempts == IF pre.raises = "" /\ pre.ok
                    THEN first \o <<Call("fetch", s)>> \o <<Call("urlopen", g)>>
                    ELSE first \o <<Call("urlopen", g)>>
    IN  IF pre.raises # "" THEN DownloadResult(pre.raises, TRUE, <<>>, <<>>, first)
        ELSE IF fetched
        THEN DownloadResult("", FALSE, completed.stdout, <<"curl">>,
                            first \o <<Call("fetch", s)>>)
        ELSE IF g = "body"
        THEN DownloadResult("", FALSE, <<"body">>, <<"urllib">>, attempts)
        ELSE DownloadResult("", TRUE, <<>>,
                <<"Skill download failed. curl=(">> \o pre.message
                    \o <<") urllib=(", "<urlopen error refused>", ")">>,
                attempts)

\* Lines 76-98: SkillRegistry._download_skill, p and s the two runs of curl and
\* g the urlopen, for those of them that are made.
_download_skill(p, s, g) ==
    LET pre == verify_url_with_curl(p)
        completed == CurlRun(s)
        first == <<Call("preflight", p)>>
        second == first \o <<Call("fetch", s)>>
        fallback == first \o <<Call("urlopen", g)>>
    IN  IF pre.raises # "" THEN DownloadResult(pre.raises, TRUE, <<>>, <<>>, first)
        ELSE IF pre.ok
        THEN IF completed.raises # ""
             THEN DownloadResult(completed.raises, TRUE, <<>>, <<>>, second)
             ELSE IF completed.returncode = "0" /\ strip(completed.stdout) # <<>>
             THEN DownloadResult("", FALSE, completed.stdout, <<"curl">>, second)
             ELSE DownloadResult("", TRUE, <<>>,
                    <<"Skill download failed via curl: ">> \o pre.message, second)
        ELSE IF g = "body"
        THEN DownloadResult("", FALSE, <<"body">>, <<"urllib">>, fallback)
        ELSE IF g = "URLError"
        THEN DownloadResult("", TRUE, <<>>,
                <<"Skill download failed. curl=(">> \o pre.message
                    \o <<") urllib=(", "<urlopen error refused>", ")">>,
                fallback)
        ELSE DownloadResult(g, TRUE, <<>>, <<>>, fallback)

\* Lines 65-74: SkillRegistry.install_from_url; name is <<>> for None.
install_from_url(fs, u, name, p, s, g) ==
    LET got == _download_skill(p, s, g)
        skill_name == Or(name, _derive_name(u))
        target == Split(skill_name)
        made == mkdir(fs, target)
        base == [op |-> "install", raises |-> "", value |-> <<>>, list |-> <<>>,
                 url |-> u, name |-> name, skill_name |-> <<>>,
                 changed |-> FALSE]
    IN  IF got.raises # ""
        THEN [fs |-> fs, calls |-> got.calls,
              reply |-> [base EXCEPT !.raises = got.raises]]
        ELSE IF got.none
        THEN [fs |-> fs, calls |-> got.calls,
              reply |-> [base EXCEPT !.value = got.source]]
        ELSE IF made.raises # ""
        THEN [fs |-> made.fs, calls |-> got.calls,
              reply |-> [base EXCEPT !.raises = made.raises,
                                     !.changed = made.fs # fs]]
        ELSE [fs |-> write_text(made.fs, target \o <<Marker>>, got.body),
              calls |-> got.calls,
              reply |-> [base EXCEPT
                    !.skill_name = skill_name,
                    !.changed = TRUE,
                    !.value = <<"Installed skill '">> \o skill_name
                                \o <<"' from ">> \o u \o <<" via ">> \o got.source]]

\* What is under the root to begin with: "a" and "b", each not there, a file,
\* a directory, or a skill installed before.
Entries == {"absent", "file", "dir", "skill"}

TreeOf(a, b) ==
    LET Under(fs, n, e) ==
            CASE e = "absent" -> fs
              [] e = "file" -> Put(fs, <<n>>, File(<<"old">>))
              [] e = "dir" -> Put(fs, <<n>>, Dir)
              [] e = "skill" -> Put(Put(fs, <<n>>, Dir), <<n, Marker>>,
                                    File(<<"old">>))
    IN  Under(Under(EmptyTree, <<"a">>, a), <<"b">>, b)

\* The URLs installed from, and the names the caller gives (<<>>: none).
InstallUrls == { <<"h", ":", "/", "a">>, <<"a">> }
CallerNames == { <<>>, <<"a">>, <<"b", "/", "c">> }

InitRegistry ==
    /\ NoRun /\ ExtractIdle /\ DeriveIdle /\ StoreIdle /\ WebIdle
    /\ \E a, b \in Entries : root = TreeOf(a, b)
    /\ reply = NoReply
    /\ calls = <<>>

\* The outcomes of the second run of curl and of the urlopen after a first run
\* of curl with outcome p: each is made or not according to p.
NotMade == "not made"
SecondRuns(p) ==
    IF verify_url_with_curl(p).raises = "" /\ verify_url_with_curl(p).ok
    THEN CurlOutcomes ELSE {NotMade}
Fallbacks(p) ==
    IF verify_url_with_curl(p).raises = "" /\ ~verify_url_with_curl(p).ok
    THEN GetOutcomes ELSE {NotMade}

\* The install-skill command: one call of install_from_url.
Install ==
    /\ \E u \in InstallUrls, name \in CallerNames, p \in CurlOutcomes :
       \E s \in SecondRuns(p), g \in Fallbacks(p) :
        LET done == install_from_url(root, u, name, p, s, g)
        IN  /\ root' = done.fs
            /\ reply' = done.reply
            /\ calls' = done.calls
    /\ UNCHANGED << runVars, extractVars, deriveVars, storeVars, webVars >>

\* The list-skills command: one call of list_installed.
ListInstalled ==
    /\ reply' = [NoReply EXCEPT !.op = "list", !.list = list_installed(root)]
    /\ calls' = <<>>
    /\ UNCHANGED << runVars, extractVars, deriveVars, storeVars, webVars, root >>

NextRegistry == Install \/ ListInstalled

SpecRegistry == InitRegistry /\ [][NextRegistry]_vars

\* ------------------------------------------------------------ web front-end

\* How many requests the server handles in a behaviour.
MaxRequests == 2

IdentityHeader == "X-Moltbook-Identity"

AppKeyVar == "MOLTBOOK_APP_KEY"

\* What urlopen and the verifying service can do at one call of verify_token:
\* an exception of urlopen or of the decoding, or the JSON value received.
VerifierReplies ==
    { [valid |-> TRUE, agent |-> "a"],
      [valid |-> TRUE],
      [valid |-> FALSE, error |-> "invalid_app_key"],
      [valid |-> FALSE, error |-> "invalid_token"],
      [valid |-> FALSE, error |-> "identity_token_expired"],
      [valid |-> FALSE, error |-> "banned"],
      EmptyDict }

VerifierOutcomes ==
    { [kind |-> k, data |-> EmptyDict] :
        k \in {"HTTPError", "URLError", "JSONDecodeError", "UnicodeDecodeError",
               "array"} }
    \cup { [kind |-> "object", data |-> d] : d \in VerifierReplies }

\* What a method gives back: the exception that escapes it, or its result.
Raises(e) == [raises |-> e, result |-> NoAuth]
Returns(r) == [raises |-> "", result |-> r]

\* MoltbookIdentityVerifier.verify_token for one outcome of the call.
verify_token(o) ==
    IF o.kind = "HTTPError"
    THEN Returns(AuthResult(FALSE, 502, "verify_http_error:500", "None"))
    ELSE IF o.kind = "URLError"
    THEN Returns(AuthResult(FALSE, 502, "verify_unreachable", "None"))
    ELSE IF o.kind = "JSONDecodeError"
    THEN Returns(AuthResult(FALSE, 502, "verify_invalid_response", "None"))
    ELSE IF o.kind = "UnicodeDecodeError" THEN Raises("UnicodeDecodeError")
    ELSE IF o.kind # "object" THEN Raises("AttributeError")
    ELSE
        LET error == Get(o.data, "error", "")
        IN  IF Get(o.data, "valid", FALSE)
            THEN Returns(AuthResult(TRUE, 200, "", Get(o.data, "agent", "{}")))
            ELSE IF error = "invalid_app_key"
            THEN Returns(AuthResult(FALSE, 500, error, "None"))
            ELSE IF error \in {"identity_token_expired", "invalid_token"}
            THEN Returns(AuthResult(FALSE, 401, error, "None"))
            ELSE Returns(AuthResult(FALSE, 401,
                            IF error # "" THEN error ELSE "invalid_token", "None"))

\* AppHandler._authenticate_agent for the request's headers, the process
\* environment and one outcome of the verifier; calls holds the outcome when
\* the verifier was called.
_authenticate_agent(headers, env, o) ==
    LET token == strip(Or(Get(headers, IdentityHeader, <<>>), <<>>))
        app_key == strip(Get(env, AppKeyVar, <<>>))
    IN  IF token = <<>>
        THEN [got |-> Returns(AuthResult(TRUE, 200, "", "None")), calls |-> <<>>]
        ELSE IF app_key = <<>>
        THEN [got |-> Returns(AuthResult(FALSE, 500, "moltbook_app_key_missing",
                                         "None")),
              calls |-> <<>>]
        ELSE [got |-> verify_token(o), calls |-> <<o>>]

\* str(x) of a str or of None.
Str(x) == IF x = <<NoneValue>> THEN <<"None">> ELSE x

\* What reading the goal gives: an exception, an error response, or the
\* arguments of the agent (status 0).
GoalRaises(e) == [raises |-> e, status |-> 0, error |-> "", args |-> NoArgs]
GoalRejected(status, error) ==
    [raises |-> "", status |-> status, error |-> error, args |-> NoArgs]
GoalRead(g, m) ==
    IF g = <<>> THEN GoalRejected(400, "goal_required")
    ELSE [raises |-> "", status |-> 0, error |-> "",
          args |-> [goal |-> g, max_steps |-> m]]

\* Lines 232-244: the JSON body of POST /api/run.
ApiGoal(raw) ==
    LET body == IF raw # <<>> THEN json_loads(raw) ELSE ParseOk(Dict(EmptyDict), 1)
    IN  IF ~body.ok THEN GoalRejected(400, "invalid_json_body")
        ELSE IF body.val.kind # "object" THEN GoalRaises("AttributeError")
        ELSE GoalRead(strip(Str(Get(body.val.obj, "goal", <<>>))),
                      Or(strip(Str(Get(body.val.obj, "max_steps", <<"12">>))),
                         <<"12">>))

\* The name=value pairs of a form body, "&" between them.
FormPairs == {"goal=hi", "goal=+", "goal=", "max_steps=3"}

FormName(c) == IF c = "max_steps=3" THEN "max_steps" ELSE "goal"

\* The value of a pair after unquoting ("+" is a space).
FormValue(c) ==
    CASE c = "goal=hi" -> <<"hi">>
      [] c = "goal=+" -> <<" ">>
      [] c = "goal=" -> <<>>
      [] c = "max_steps=3" -> <<"3">>

\* urllib.parse.parse_qs: the values of each name in order, blank values
\* dropped.
RECURSIVE ParsePairs(_, _, _)
ParsePairs(s, i, acc) ==
    IF i > Len(s) THEN acc
    ELSE IF s[i] \notin FormPairs \/ FormValue(s[i]) = <<>>
    THEN ParsePairs(s, i + 1, acc)
    ELSE ParsePairs(s, i + 1,
            SetItem(acc, FormName(s[i]),
                    Append(Get(acc, FormName(s[i]), <<>>), FormValue(s[i]))))

parse_qs(raw) == ParsePairs(raw, 1, EmptyDict)

\* Lines 266-274: the form body of POST /run.
FormGoal(raw) ==
    LET form == parse_qs(raw)
    IN  GoalRead(strip(Or(Get(form, "goal", << <<>> >>)[1], <<>>)),
                 strip(Or(Get(form, "max_steps", << <<"12">> >>)[1], <<"12">>)))

\* subprocess.run of the agent: it cannot start the interpreter, or the agent
\* runs and exits with a code, and then its output may not decode as text
\* (text=True), which raises in subprocess.run.
Completions ==
    { [started |-> FALSE, returncode |-> 0, raises |-> "FileNotFoundError"],
      [started |-> TRUE, returncode |-> 0, raises |-> ""],
      [started |-> TRUE, returncode |-> 1, raises |-> ""],
      [started |-> TRUE, returncode |-> 0, raises |-> "UnicodeDecodeError"] }

\* The requests a client sends.
RequestHeaders ==
    {EmptyDict} \cup { [k \in {IdentityHeader} |-> v] :
                        v \in { <<" ">>, <<"tok">>, <<" ", "tok">> } }

ApiBodies ==
    { <<>>, <<"x">>, <<"[", "]">>, <<"{", "}">>,
      <<"{", "g=hi", "}">>, <<"{", "g=hi", ",", "m=3", "}">>,
      <<"{", "g=blank", "}">>, <<"{", "g=null", "}">> }

FormBodies ==
    { <<>>, <<"goal=hi">>, <<"goal=hi", "&", "max_steps=3">>, <<"goal=+">>,
      <<"goal=">>, <<"max_steps=3">> }

Requests ==
    { [path |-> "/api/run", headers |-> h, raw |-> b] :
        h \in RequestHeaders, b \in ApiBodies }
    \cup { [path |-> "/run", headers |-> h, raw |-> b] :
        h \in RequestHeaders, b \in FormBodies }
    \cup { [path |-> "/other", headers |-> EmptyDict, raw |-> <<>>] }

Environs ==
    {EmptyDict} \cup { [k \in {AppKeyVar} |-> v] : v \in { <<" ">>, <<"K">> } }

InitWeb ==
    /\ NoRun /\ ExtractIdle /\ DeriveIdle /\ StoreIdle /\ RegistryIdle
    /\ environ \in Environs
    /\ request = NoRequest /\ webPc = "listening"
    /\ auth = NoAuth /\ verifyCalls = <<>> /\ runArgs = NoArgs
    /\ spawned = FALSE /\ agentProc = NotCompleted /\ response = NoResponse
    /\ served = 0

notWebVars == << runVars, extractVars, deriveVars, storeVars, registryVars, environ >>

\* Lines 217-224: the server takes the next request, one at a time, and
\* dispatches it on its path.
do_POST ==
    /\ webPc \in {"listening", "responded", "raised"}
    /\ served < MaxRequests
    /\ served' = served + 1
    /\ \E req \in Requests :
        /\ request' = req
        /\ IF req.path \in {"/api/run", "/run"}
           THEN webPc' = "authenticate" /\ response' = NoResponse
           ELSE webPc' = "responded" /\ response' = [status |-> 404, error |-> ""]
    /\ auth' = NoAuth /\ verifyCalls' = <<>> /\ runArgs' = NoArgs
    /\ spawned' = FALSE /\ agentProc' = NotCompleted
    /\ UNCHANGED notWebVars

\* Lines 227-230 and 261-264: auth = self._authenticate_agent(), and the
\* error response when it is not ok.
Authenticate(outcomes) ==
    /\ webPc = "authenticate"
    /\ \E o \in outcomes :
        LET a == _authenticate_agent(request.headers, environ, o)
        IN  /\ verifyCalls' = a.calls
            /\ IF a.got.raises # ""
               THEN /\ webPc' = "raised"
                    /\ UNCHANGED << auth, response >>
               ELSE /\ auth' = a.got.result
                    /\ IF ~a.got.result.ok
                       THEN /\ response' =
                                [status |-> a.got.result.status_code,
                                 error |-> IF a.got.result.error # ""
                                           THEN a.got.result.error
                                           ELSE "unauthorized"]
                            /\ webPc' = "responded"
                       ELSE /\ webPc' = "goal"
                            /\ UNCHANGED response
    /\ UNCHANGED << notWebVars, request, runArgs, spawned, agentProc, served >>

\* The handler of the given path reads the goal: it raises, answers with an
\* error, or goes on to run the agent.
ReadGoal(path, got) ==
    /\ webPc = "goal" /\ request.path = path
    /\ IF got.raises # ""
       THEN /\ webPc' = "raised"
            /\ UNCHANGED << response, runArgs >>
       ELSE IF got.status # 0
       THEN /\ response' = [status |-> got.status, error |-> got.error]
            /\ webPc' = "responded"
            /\ UNCHANGED runArgs
       ELSE /\ runArgs' = got.args
            /\ webPc' = "run"
            /\ UNCHANGED response
    /\ UNCHANGED << notWebVars, request, auth, verifyCalls, spawned, agentProc, served >>

\* Lines 232-244 of _handle_api_run.
ApiReadGoal == ReadGoal("/api/run", ApiGoal(request.raw))

\* Lines 266-274 of _handle_legacy_form_run.
FormReadGoal == ReadGoal("/run", FormGoal(request.raw))

\* Lines 247 and 283: status_code = 200 if code == 0 else 500
StatusOf(code) == IF code = 0 THEN 200 ELSE 500

\* AppHandler._run_agent and the response of the handler of the given path.
RunAgent(path, completions) ==
    /\ webPc = "run" /\ request.path = path
    /\ \E c \in completions :
        /\ spawned' = c.started
        /\ agentProc' = [returncode |-> c.returncode, raises |-> c.raises]
        /\ IF c.raises # ""
           THEN /\ webPc' = "raised"
                /\ UNCHANGED response
           ELSE /\ response' = [status |-> StatusOf(c.returncode), error |-> ""]
                /\ webPc' = "responded"
    /\ UNCHANGED << notWebVars, request, auth, verifyCalls, runArgs, served >>

\* Lines 246-258 of _handle_api_run.
ApiRun == RunAgent("/api/run", Completions)

\* Lines 276-284 of _handle_legacy_form_run.
FormRun == RunAgent("/run", Completions)

NextWeb ==
    \/ do_POST
    \/ Authenticate(VerifierOutcomes)
    \/ ApiReadGoal
    \/ FormReadGoal
    \/ ApiRun
    \/ FormRun

SpecWeb == InitWeb /\ [][NextWeb]_vars

\* ------------------------------------------------------------------ claims

Ended(r) == pc[r] \in {"finished", "exhausted", "raised"}
Returned(r) == pc[r] \in {"finished", "exhausted"}

\* The events of one phase, in order.
Events(r, phase) == SelectSeq(history[r], LAMBDA e : e.phase = phase)

ActionOf(d) == Get(d, "action", <<"finish">>)

\* A review event whose verdict is done.
ReportsDone(e) == e.data.kind = "object" /\ Get(e.data.obj, "done", FALSE) = TRUE

IsUnknownObservation(e) ==
    e.phase = "observation" /\ e.data.str[1] = "Unknown action: "

\* Every chat call of the run returned a reply, every tool returned, and the
\* store held a list: the run saw model outputs and tool results only.
OnlyOutputsAndResults(r) ==
    exc[r] \in {"", "TypeError: item assignment", "AttributeError: get"}

\* C1: a run with max_steps = N makes at most N executor queries, and if none
\* of its N decisions is finish and none of its reviews reports done, it
\* returns the exhaustion sentinel.
C1_AtMostNQueriesElseSentinel ==
    \A r \in Runs :
        /\ queries[r].executor <= max_steps[r]
        /\ ( /\ Ended(r)
             /\ OnlyOutputsAndResults(r)
             /\ Len(Events(r, "execute")) = max_steps[r]
             /\ \A i \in DOMAIN history[r] :
                   /\ history[r][i].phase = "execute"
                        => ActionOf(history[r][i].data.obj) # <<"finish">>
                   /\ history[r][i].phase = "review" => ~ReportsDone(history[r][i]) )
           => (pc[r] = "exhausted" /\ result[r] = Sentinel)

\* The entries a run has appended, counted from its history: one per decision
\* and one per observation of a registered tool.
AppendedCount(r) ==
    Len(Events(r, "execute"))
        + Cardinality({i \in DOMAIN history[r] :
                          /\ history[r][i].phase = "observation"
                          /\ ~IsUnknownObservation(history[r][i])})

\* A run that came to one of its three terminal paths: it returned, or the
\* save of that path raised.
ReachedTerminalPath(r) == Returned(r) \/ exc[r] = "UnicodeEncodeError"

\* C2: a run that ends by finish, by a done review or by exhaustion has written
\* the store exactly once, with its full in-memory list (what it loaded plus
\* what it appended), and the file holds that list when the run ends; the
\* file is written at no other point of a run.
C2_SavedOnceAtEveryTerminalPath ==
    \A r \in Runs :
        /\ ReachedTerminalPath(r) =>
              /\ written[r] = <<memory[r]>>
              /\ file.kind = memory[r].kind /\ file.items = memory[r].items
              /\ Len(memory[r].items) = Len(loaded[r].items) + AppendedCount(r)
        /\ ~ReachedTerminalPath(r) => written[r] = <<>>

\* C3: once the loop has started, no error aborts the run: it ends only by
\* finish, a done review or exhaustion.
C3_NoErrorAbortsRun ==
    \A r \in Runs : (step_no[r] >= 1 /\ loaded[r].kind = "list") => pc[r] # "raised"

\* An executor step of run r whose stamped decision names an action that is
\* neither finish nor a registered tool.
UnknownActionStep(r) ==
    /\ pc[r] = "exec"
    /\ queries'[r].executor = queries[r].executor + 1
    /\ "step" \in DOMAIN decision'[r]
    /\ decision'[r].step = step_no[r]
    /\ ActionOf(decision'[r]) # <<"finish">>
    /\ ActionOf(decision'[r]) \notin { <<"read_file">>, <<"write_file">>, <<"run_shell">> }

PhaseAt(r, i) == IF i \in DOMAIN history[r] THEN history[r][i].phase ELSE ""

\* FINISHED is entered only by a finish decision or a done review.
FinishedByFinishOrDone(r) ==
    pc[r] = "finished" =>
        LET last == history[r][Len(history[r])]
        IN  \/ last.phase = "execute" /\ ActionOf(last.data.obj) = <<"finish">>
            \/ last.phase = "review" /\ ReportsDone(last)

\* C5 as stated: every executor step that does not end the run is followed by
\* exactly one reviewer query before the next executor query, so at the head of
\* the loop the reviewer has been asked as often as the executor; and FINISHED
\* is entered only from EXECUTING with finish or REVIEWING with done.
C5_ReviewAfterEveryStep ==
    \A r \in Runs :
        /\ pc[r] = "exec" => queries[r].reviewer = queries[r].executor
        /\ FinishedByFinishOrDone(r)

\* C5 amended: an executor step that runs a registered tool and does not end
\* the run is followed by exactly one reviewer query before the next executor
\* query; a step with an unknown action is followed by none; FINISHED is
\* entered only from EXECUTING with finish or REVIEWING with done.
C5_ReviewAfterEveryToolStep ==
    \A r \in Runs :
        /\ pc[r] = "exec" =>
              /\ queries[r].reviewer = toolCalls[r]
              /\ queries[r].executor = queries[r].reviewer
                    + Cardinality({i \in DOMAIN history[r] :
                                      IsUnknownObservation(history[r][i])})
        /\ \A i \in DOMAIN history[r] :
              /\ (history[r][i].phase = "execute" /\ i < Len(history[r]))
                    => PhaseAt(r, i + 1) = "observation"
              /\ (history[r][i].phase = "observation" /\ i < Len(history[r]))
                    => PhaseAt(r, i + 1) =
                          (IF IsUnknownObservation(history[r][i])
                           THEN "execute" ELSE "review")
              /\ (history[r][i].phase = "review" /\ i < Len(history[r]))
                    => PhaseAt(r, i + 1) = "execute"
        /\ FinishedByFinishOrDone(r)

\* A step with an unknown action went straight to the next executor query,
\* whose tool step was reviewed and found done.
C5_Witness ==
    /\ pc[1] = "finished"
    /\ Len(history[1]) = 6
    /\ IsUnknownObservation(history[1][3])
    /\ PhaseAt(1, 4) = "execute"
    /\ PhaseAt(1, 6) = "review"

\* A tool call of run r whose decision's input does not name the tool's
\* parameters.
MismatchedToolStep(r) ==
    /\ pc[r] = "tool"
    /\ toolCalls'[r] = toolCalls[r] + 1
    /\ Get(decision[r], "input", <<>>) # <<"ok">>

\* C6: a registered tool invoked with arguments that do not match its
\* parameter names raises nothing out of run: the step records an observation
\* beginning 'Invalid tool input' in history and in memory, and the next thing
\* the run does is query the reviewer.
C6_InvalidInputObserved ==
    [][\A r \in Runs :
          /\ MismatchedToolStep(r) =>
                /\ pc'[r] = "review" /\ exc'[r] = ""
                /\ Len(history'[r]) = Len(history[r]) + 1
                /\ SubSeq(history'[r], 1, Len(history[r])) = history[r]
                /\ history'[r][Len(history'[r])].phase = "observation"
                /\ history'[r][Len(history'[r])].data.str[1] = "Invalid tool input: "
                /\ memory'[r].items = Append(memory[r].items,
                      [goal |-> goal[r],
                       observation |-> history'[r][Len(history'[r])].data.str])
                /\ file' = file
          /\ (pc[r] = "review" /\ pc'[r] # "review")
                => queries'[r].reviewer = queries[r].reviewer + 1]_vars

\* A run that recorded an invalid-input observation, was reviewed and is at
\* its next step.
C6_Witness ==
    /\ pc[1] = "exec" /\ step_no[1] = 2
    /\ Len(history[1]) = 4
    /\ history[1][3].phase = "observation"
    /\ history[1][3].data.str[1] = "Invalid tool input: "
    /\ history[1][2].data.obj.input = <<"bad">>
    /\ PhaseAt(1, 4) = "review"

IsPrefix(s, t) == Len(s) <= Len(t) /\ SubSeq(t, 1, Len(s)) = s

\* C7: of two runs on one store file, the one that saves last wins: the file
\* holds exactly its list, and if it loaded before the other saved, none of the
\* other run's records is in the file (if it loaded after, all of them are).
C7_LastWriterWins ==
    /\ saveOrder # <<>> =>
          LET w == saveOrder[Len(saveOrder)]
          IN  file.kind = "list" /\ file.items = memory[w].items
    /\ \A w \in Runs, o \in Runs :
          (saveOrder = <<o, w>> /\ w # o) =>
              /\ written[w] = <<memory[w]>> /\ written[o] = <<memory[o]>>
              /\ loadedAt[o] = 0
              /\ loadedAt[w] = 0 =>
                    \A i \in DOMAIN file.items : file.items[i].goal # goal[o]
              /\ loadedAt[w] = 1 => IsPrefix(memory[o].items, file.items)

\* Both runs loaded before either saved, run 1 saved its records first and run
\* 2 then overwrote them.
C7_Witness ==
    /\ saveOrder = <<1, 2>>
    /\ loadedAt[2] = 0
    /\ Len(memory[1].items) > Len(loaded[1].items)
    /\ Len(memory[2].items) > Len(loaded[2].items)

\* The entries a history stands for, in the order they were produced: one
\* decision record per execute event, one observation record per observation
\* of a registered tool.
RECURSIVE EntriesOf(_, _)
EntriesOf(h, g) ==
    IF h = <<>> THEN <<>>
    ELSE LET e == Head(h)
         IN  (IF e.phase = "execute"
                 THEN << [goal |-> g, decision |-> e.data.obj] >>
              ELSE IF e.phase = "observation" /\ ~IsUnknownObservation(e)
                 THEN << [goal |-> g, observation |-> e.data.str] >>
              ELSE <<>>) \o EntriesOf(Tail(h), g)

\* C8: memory is append-only and in insertion order: at every point of a run
\* the in-memory list is the loaded list followed by the records of the run in
\* the order they were produced, each step keeps the list it found as a prefix,
\* and the list written at the terminal path is that list.
C8_AppendOnlyInOrder ==
    /\ [](\A r \in Runs :
            /\ pc[r] \notin {"idle", "load"} =>
                  memory[r].items = loaded[r].items \o EntriesOf(history[r], goal[r])
            /\ Returned(r) =>
                  /\ written[r] = <<memory[r]>>
                  /\ file.items = loaded[r].items \o EntriesOf(history[r], goal[r]))
    /\ [][\A r \in Runs :
            pc[r] # "load" => IsPrefix(memory[r].items, memory'[r].items)]_vars

\* A run that loaded one old entry and appended two decisions and two
\* observations before running out of steps.
C8_Witness ==
    /\ pc[1] = "exhausted"
    /\ loaded[1].items = <<OldEntry>>
    /\ Len(file.items) = 5
    /\ file.items[1] = OldEntry

\* C9: loading the store never raises and yields the empty list whenever the
\* file is absent or holds anything but a list of entries, and the run then
\* proceeds as with an empty memory.
C9_LoadDegradesToEmpty ==
    \A r \in Runs :
        /\ exc[r] \notin {"UnicodeDecodeError", "TypeError: slice"}
        /\ pc[r] = "plan" =>
              /\ memory[r].kind = "list"
              /\ file.kind # "list" => memory[r].items = <<>>

\* C10: extract_json always returns a mapping, so that stamping its result and
\* reading action or done from it never faults.
C10_ExtractAlwaysMapping ==
    \A r \in Runs :
        /\ \A i \in DOMAIN history[r] :
              history[r][i].phase \in {"plan", "execute", "review"}
                  => history[r][i].data.kind = "object"
        /\ exc[r] \notin {"TypeError: item assignment", "AttributeError: get"}

\* Whether s holds neither brace.
NoBrace(s) == \A i \in DOMAIN s : s[i] \notin {"{", "}"}

\* C11: a text with neither "{" nor "}" is extracted as exactly
\* {"action": "finish", "final_answer": <the text as given>}.
C11_NoBraceIsFinishWithText ==
    (parsed # NotCalled /\ NoBrace(text)) => parsed = FinishWith(text)

\* Whether text[i..j] is a valid JSON object standing in other text that holds
\* no brace, so that text[i..j] is the span from the first "{" to the last "}".
EmbeddedObject(i, j) ==
    /\ 1 <= i /\ i <= j /\ j <= Len(text) /\ j - i + 1 < Len(text)
    /\ json_loads(SubSeq(text, i, j)).ok
    /\ json_loads(SubSeq(text, i, j)).val.kind = "object"
    /\ NoBrace(SubSeq(text, 1, i - 1))
    /\ NoBrace(SubSeq(text, j + 1, Len(text)))

\* C12: a text that holds a valid JSON object inside other text is extracted
\* as that object, the span from the first "{" to the last "}".
C12_EmbeddedObjectReturned ==
    parsed # NotCalled =>
        \A i, j \in DOMAIN text :
            EmbeddedObject(i, j) => parsed = json_loads(SubSeq(text, i, j)).val

\* Whether u is made of characters of the allowed class only.
AllAllowed(u) == \A i \in DOMAIN u : Allowed(u[i])

\* s[-SkillNameLimit:], by counting from the end.
Last64(s) ==
    [i \in 1..(IF Len(s) < SkillNameLimit THEN Len(s) ELSE SkillNameLimit) |->
        s[Len(s) - (IF Len(s) < SkillNameLimit THEN Len(s) ELSE SkillNameLimit) + i]]

\* u from its first to its last character that is not "-".
Trimmed(u) ==
    LET keep == { i \in DOMAIN u : u[i] # "-" }
        lo == CHOOSE i \in keep : \A j \in keep : i <= j
        hi == CHOOSE i \in keep : \A j \in keep : j <= i
    IN  IF keep = {} THEN <<>> ELSE [i \in 1..(hi - lo + 1) |-> u[lo + i - 1]]

\* C18 as stated: a URL made of allowed characters only gives itself, truncated
\* to its last 64 characters, as the name; a URL that leaves nothing to name
\* gives "external-skill".
C18_NameIsUrlTruncated ==
    derived.called =>
        /\ (AllAllowed(url) /\ \E i \in DOMAIN url : url[i] # "-")
                => derived.name = Last64(url)
        /\ (\A i \in DOMAIN url : ~Allowed(url[i]) \/ url[i] = "-")
                => derived.name = ExternalSkill

\* C18, amended: a URL made of allowed characters only gives itself without
\* its leading and trailing "-", truncated to its last 64 characters, as the
\* name; a URL that leaves nothing to name gives "external-skill".
C18_NameIsTrimmedUrlTruncated ==
    derived.called =>
        /\ (AllAllowed(url) /\ Trimmed(url) # <<>>)
                => derived.name = Last64(Trimmed(url))
        /\ (\A i \in DOMAIN url : ~Allowed(url[i]) \/ url[i] = "-")
                => derived.name = ExternalSkill

\* A URL of allowed characters, longer than the limit and starting with "-",
\* has been named.
C18_Witness ==
    /\ derived.called /\ AllAllowed(url)
    /\ Len(url) > SkillNameLimit + 1 /\ url[1] = "-"
    /\ Len(derived.name) = SkillNameLimit /\ derived.name # ExternalSkill

\* Whether the str s holds the str sub.
Contains(s, sub) ==
    \E i \in 1..(Len(s) + 1) :
        i + Len(sub) - 1 <= Len(s) /\ SubSeq(s, i, i + Len(sub) - 1) = sub

\* The last call was an install whose downloads both failed: curl exited
\* non-zero and the urlopen did not give a document.
BothStagesFailed ==
    /\ reply.op = "install" /\ Len(calls) = 2
    /\ calls[1].outcome = "failed"
    /\ calls[2].stage = "urlopen" /\ calls[2].outcome # "body"

\* C13: when both download stages fail, install_from_url returns a failure
\* string that holds both diagnostics and writes nothing under the root.
C13_BothFailuresReported ==
    BothStagesFailed =>
        /\ reply.raises = ""
        /\ Contains(reply.value, verify_url_with_curl("failed").message)
        /\ Contains(reply.value, <<"<urlopen error refused>">>)
        /\ ~reply.changed

\* C14: install_from_url never raises, neither when the curl command is not
\* there on the host nor when the urlopen fails in any way, and the urlopen is
\* still attempted when the curl command is not there.
C14_InstallNeverRaises ==
    ( /\ reply.op = "install"
      /\ \/ calls[1].outcome = "unavailable"
         \/ \E i \in DOMAIN calls :
                calls[i].stage = "urlopen" /\ calls[i].outcome # "body" ) =>
        /\ reply.raises = ""
        /\ calls[1].outcome = "unavailable"
                => \E i \in DOMAIN calls : calls[i].stage = "urlopen"

\* The names of the directories right under the root that hold the marker.
MarkedDirs ==
    { n \in { q[1] : q \in { x \in DOMAIN root : Len(x) = 1 } } :
        root[<<n>>].type = "dir" /\ <<n, Marker>> \in DOMAIN root }

\* C19: list_installed returns exactly the names of the directories right
\* under the root that hold the marker document, in lexicographic order, and
\* after a successful install the installed name is among them.
C19_ListedExactlyInOrder ==
    /\ reply.op = "list" =>
            /\ { reply.list[i] : i \in DOMAIN reply.list } = MarkedDirs
            /\ \A i, j \in DOMAIN reply.list :
                    i < j => StrLess(reply.list[i], reply.list[j])
    /\ (reply.op = "install" /\ reply.skill_name # <<>>) =>
            \E i \in DOMAIN list_installed(root) :
                list_installed(root)[i] = reply.skill_name

\* C20: the urlopen is attempted if and only if the pre-flight run of curl
\* reports failure; after a pre-flight success, a second fetch that gives
\* nothing or exits non-zero fails the download at once with the curl message,
\* without the urlopen and without installing anything.
C20_FallbackOnlyAfterPreflightFailure ==
    reply.op = "install" =>
        /\ (\E i \in DOMAIN calls : calls[i].stage = "urlopen")
                <=> calls[1].outcome = "failed"
        /\ ( /\ calls[1].outcome \in {"body", "empty", "blank"}
             /\ calls[2].outcome \in {"empty", "blank", "failed"} )
                => /\ reply.raises = ""
                   /\ reply.value[1] = "Skill download failed via curl: "
                   /\ Contains(reply.value, <<"curl_ok bytes=">>)
                   /\ \A i \in DOMAIN calls : calls[i].stage # "urlopen"
                   /\ ~reply.changed

\* A pre-flight success was followed by a second fetch that gave nothing, and
\* install_from_url has returned.
C20_Witness ==
    /\ reply.op = "install" /\ Len(calls) = 2
    /\ calls[1] = Call("preflight", "body") /\ calls[2] = Call("fetch", "empty")
    /\ reply.value[1] = "Skill download failed via curl: "
    /\ ~reply.changed

\* C17: whatever sequence of entries is saved, no save raises and loading
\* gives an equal sequence back, however often it is saved and loaded again.
C17_RoundTripEqual ==
    /\ storePc # "save raised"
    /\ storePc = "loaded" => held = Document("list", given)

\* The last event of a run's history.
LastEvent(r) == history[r][Len(history[r])]

\* C16 as stated: a run that finished on a finish decision returned the
\* decision's final_answer, or "Done." if it has none; one that finished on a
\* done review returned the review's final_answer if it has one, else its
\* reason if it has one, else "Done.".
C16_ReturnsAnswerIfPresent ==
    \A r \in Runs : pc[r] = "finished" =>
        LET d == LastEvent(r).data.obj
        IN  /\ LastEvent(r).phase = "execute" =>
                  result[r] = IF "final_answer" \in DOMAIN d
                              THEN d.final_answer ELSE <<"Done.">>
            /\ LastEvent(r).phase = "review" =>
                  result[r] = IF "final_answer" \in DOMAIN d THEN d.final_answer
                              ELSE IF "reason" \in DOMAIN d THEN d.reason
                              ELSE <<"Done.">>

\* Whether the dict d has a value for k that is not the empty str.
NonEmpty(d, k) == k \in DOMAIN d /\ Len(d[k]) > 0

\* C16, amended: a run that finished on a finish decision returned the
\* decision's final_answer, or "Done." if it has none; one that finished on a
\* done review returned the review's final_answer if it has one that is not
\* empty, else its reason if it has one that is not empty, else "Done.".
C16_ReturnsAnswerIfNotEmpty ==
    \A r \in Runs : pc[r] = "finished" =>
        LET d == LastEvent(r).data.obj
        IN  /\ LastEvent(r).phase = "execute" =>
                  result[r] = IF "final_answer" \in DOMAIN d
                              THEN d.final_answer ELSE <<"Done.">>
            /\ LastEvent(r).phase = "review" =>
                  result[r] = IF NonEmpty(d, "final_answer") THEN d.final_answer
                              ELSE IF NonEmpty(d, "reason") THEN d.reason
                              ELSE <<"Done.">>

\* A run finished on a done review whose final_answer is the empty str, and
\* returned the review's reason.
C16_Witness ==
    /\ pc[1] = "finished"
    /\ LastEvent(1).phase = "review"
    /\ "final_answer" \in DOMAIN LastEvent(1).data.obj
    /\ LastEvent(1).data.obj.final_answer = <<>>
    /\ result[1] = <<"R">>

\* How many entries of the list items carry the goal g and the field.
CountOf(items, g, field) ==
    Cardinality({ i \in DOMAIN items : items[i].goal = g /\ field \in DOMAIN items[i] })

\* Run r returned, and the store it started on had no entry for its goal.
SavedWithNoPrior(r) ==
    /\ Returned(r)
    /\ CountOf(loaded[r].items, goal[r], "decision") = 0
    /\ CountOf(loaded[r].items, goal[r], "observation") = 0

\* The first step of run r ran a registered tool and the first review reported
\* done.
ToolThenDone(r) ==
    /\ Len(history[r]) = 4
    /\ PhaseAt(r, 2) = "execute" /\ PhaseAt(r, 3) = "observation"
    /\ ~IsUnknownObservation(history[r][3])
    /\ PhaseAt(r, 4) = "review" /\ ReportsDone(history[r][4])

\* One decision entry per executor step and one observation entry per call of
\* a registered tool, for the goal of run r, in the saved store.
OneEntryPerStepAndCall(r) ==
    /\ CountOf(file.items, goal[r], "decision") = queries[r].executor
    /\ CountOf(file.items, goal[r], "observation") = toolCalls[r]

\* C15 as stated: the store saved by a run that started with no entry for its
\* goal holds one decision entry per executor step and one observation entry
\* per call of a registered tool, each with the goal; a run whose first step
\* ran a tool and whose first review reported done returned the review's
\* final_answer and left one decision and one observation entry.
C15_OneEntryPerStepReturnsAnswer ==
    \A r \in Runs : SavedWithNoPrior(r) =>
        /\ OneEntryPerStepAndCall(r)
        /\ ToolThenDone(r) =>
              /\ "final_answer" \in DOMAIN history[r][4].data.obj
                    => result[r] = history[r][4].data.obj.final_answer
              /\ CountOf(file.items, goal[r], "decision") = 1
              /\ CountOf(file.items, goal[r], "observation") = 1

\* C15, amended: the same, the run returning the review's final_answer when
\* that is not empty.
C15_OneEntryPerStepReturnsNonEmptyAnswer ==
    \A r \in Runs : SavedWithNoPrior(r) =>
        /\ OneEntryPerStepAndCall(r)
        /\ ToolThenDone(r) =>
              /\ NonEmpty(history[r][4].data.obj, "final_answer")
                    => result[r] = history[r][4].data.obj.final_answer
              /\ CountOf(file.items, goal[r], "decision") = 1
              /\ CountOf(file.items, goal[r], "observation") = 1

\* A run on a store holding another goal's entry ran a tool, was reviewed done
\* with final_answer "A", returned it and left three entries in the store.
C15_Witness ==
    /\ pc[1] = "finished" /\ ToolThenDone(1)
    /\ loaded[1].items = <<OldEntry>>
    /\ result[1] = <<"A">>
    /\ Len(file.items) = 3
    /\ CountOf(file.items, "g1", "decision") = 1
    /\ CountOf(file.items, "g1", "observation") = 1

\* Whether no stage of extract_json parses the text: json.loads raises on the
\* stripped text, and the brace search finds nothing or a span json.loads
\* raises on.
Unparseable(t) ==
    LET stripped == strip(t)
        match == BraceSearch(stripped)
    IN  /\ ~json_loads(stripped).ok
        /\ match.found => ~json_loads(match.group).ok

\* The degraded decision of step k for the model's text t.
DegradedDecision(t, k) == SetItem(FinishWith(strip(t)).obj, "step", k)

\* A step of run r in which the given prompt got one more query and one event
\* of the given phase and data was recorded last.
Recorded(r, prompt, phase, data) ==
    /\ queries'[r][prompt] = queries[r][prompt] + 1
    /\ Len(history'[r]) = Len(history[r]) + 1
    /\ history'[r][Len(history'[r])].phase = phase
    /\ history'[r][Len(history'[r])].data = data

\* C21: an executor output that no extraction stage parses ends the run in
\* that same step in state FINISHED: the degraded decision {action: finish,
\* final_answer: text} is the event and the memory entry recorded, the memory
\* is persisted, no tool is called and no reviewer is asked, and the text
\* (without its surrounding whitespace) is returned; an unparseable planner or
\* reviewer output leaves the run going.
C21_UnparseableExecutorFinishes ==
    [][\A r \in Runs :
        /\ \A t \in ExecutorReplies :
            (/\ Unparseable(t)
             /\ pc[r] = "exec"
             /\ Recorded(r, "executor", "execute",
                         Dict(DegradedDecision(t, step_no[r]))))
            => /\ pc'[r] = "finished"
               /\ result'[r] = strip(t)
               /\ memory'[r] = AppendEntry(memory[r],
                     [goal |-> goal[r],
                      decision |-> DegradedDecision(t, step_no[r])])
               /\ file' = memory'[r]
               /\ toolCalls'[r] = toolCalls[r]
               /\ queries'[r]["reviewer"] = queries[r]["reviewer"]
        /\ \A t \in PlannerReplies :
            (/\ Unparseable(t)
             /\ pc[r] = "plan"
             /\ Recorded(r, "planner", "plan", FinishWith(strip(t))))
            => pc'[r] = "exec"
        /\ \A t \in ReviewerReplies :
            (/\ Unparseable(t)
             /\ pc[r] = "review"
             /\ Recorded(r, "reviewer", "review", FinishWith(strip(t))))
            => /\ pc'[r] = "exec"
               /\ step_no'[r] = step_no[r] + 1]_vars

\* C22: the history of a run that started with an empty one is well-formed
\* in every reachable state: its first event is the only plan event, every
\* review event comes right after an observation event that comes right after
\* an execute event, every observation event comes right after an execute
\* event, and the k-th execute event carries step = k whatever step the
\* model's output carried.
C22_HistoryWellFormed ==
    \A r \in Runs :
        /\ \A i \in DOMAIN history[r] : (PhaseAt(r, i) = "plan") <=> (i = 1)
        /\ \A i \in DOMAIN history[r] :
            /\ PhaseAt(r, i) \in {"plan", "execute", "observation", "review"}
            /\ PhaseAt(r, i) = "review" =>
                    /\ PhaseAt(r, i - 1) = "observation"
                    /\ PhaseAt(r, i - 2) = "execute"
            /\ PhaseAt(r, i) = "observation" => PhaseAt(r, i - 1) = "execute"
        /\ \A k \in DOMAIN Events(r, "execute") :
                Events(r, "execute")[k].data.obj["step"] = k

\* A run whose first output carried step 9 (the run_shell reply does) was
\* reviewed and went on to a second step.
C22_Witness ==
    \E r \in Runs :
        /\ Len(Events(r, "execute")) = 2
        /\ Len(Events(r, "review")) = 1
        /\ Events(r, "execute")[1].data.obj["action"] = <<"run_shell">>
        /\ Events(r, "execute")[1].data.obj["input"] = <<"ok">>

\* The LLM queries run r has made.
QueriesOf(r) == queries[r].planner + queries[r].executor + queries[r].reviewer

\* Run r is between two steps, or over: no tool call awaits its review.
BetweenSteps(r) == pc[r] \in {"exec", "finished", "exhausted", "raised"}

\* The counts of C23 in one state.
QueryCounts ==
    \A r \in Runs :
        /\ queries[r].planner <= 1
        /\ queries[r].executor > 0 => queries[r].planner = 1
        /\ Returned(r) => queries[r].planner = 1
        /\ queries[r].reviewer <= queries[r].executor
        /\ BetweenSteps(r) => queries[r].reviewer = toolCalls[r]
        /\ QueriesOf(r) <= 1 + 2 * max_steps[r]

\* C23: in every run the planner is asked exactly once and before any
\* executor query; the reviewer queries never exceed the executor queries and
\* are as many as the invocations of registered tools; a step with an unknown
\* action costs exactly one LLM query; so a run makes at most
\* 1 + 2 * max_steps LLM queries.
C23_QueryBudget ==
    [][/\ QueryCounts'
       /\ \A r \in Runs : UnknownActionStep(r) =>
            /\ step_no'[r] = step_no[r] + 1
            /\ QueriesOf(r)' = QueriesOf(r) + 1]_vars

\* The request carries an identity header.
HeaderPresent == IdentityHeader \in DOMAIN request.headers

\* The identity could not be verified: an identity was sent and the app key
\* is missing, or the verifier was called and was unreachable, erred, or did
\* not report the token valid.
VerificationFailed ==
    \/ /\ strip(Get(request.headers, IdentityHeader, <<>>)) # <<>>
       /\ strip(Get(environ, AppKeyVar, <<>>)) = <<>>
    \/ \E i \in DOMAIN verifyCalls :
            \/ verifyCalls[i].kind # "object"
            \/ ~Get(verifyCalls[i].data, "valid", FALSE)

\* The goal the request carries, the empty str for none.
RequestGoal ==
    IF request.path = "/api/run"
    THEN IF json_loads(request.raw).ok /\ json_loads(request.raw).val.kind = "object"
         THEN Get(json_loads(request.raw).val.obj, "goal", <<>>)
         ELSE <<>>
    ELSE IF \E i \in DOMAIN request.raw : request.raw[i] \in {"goal=hi", "goal=+"}
    THEN FormValue(request.raw[CHOOSE i \in DOMAIN request.raw :
                                    request.raw[i] \in {"goal=hi", "goal=+"}])
    ELSE <<>>

\* The request carries no goal, or an empty or blank one.
GoalEmpty == strip(RequestGoal) = <<>>

\* The handler of a run request is past its authentication.
Authenticated == webPc \in {"goal", "run"} \/ (webPc = "responded" /\ auth # NoAuth)

\* C24: for POST /api/run and POST /run alike the agent subprocess is started
\* only after the access checks pass: never when an identity header is present
\* and its verification fails, never when the goal is empty; a request without
\* identity header is admitted as anonymous without a call of the verifier;
\* and when the subprocess was started the HTTP status is 200 exactly when its
\* exit code is 0, and 500 otherwise.
C24_SpawnOnlyAfterChecks ==
    /\ spawned => request.path \in {"/api/run", "/run"}
    /\ spawned => ~(HeaderPresent /\ VerificationFailed)
    /\ spawned => ~GoalEmpty
    /\ (~HeaderPresent /\ Authenticated) =>
            /\ auth = AuthResult(TRUE, 200, "", "None")
            /\ verifyCalls = <<>>
    /\ spawned =>
            /\ response.status = 200 <=> agentProc.returncode = 0
            /\ agentProc.returncode # 0 => response.status = 500

====
